---- MODULE Spec2Model ----
(***************************************************************************)
(* A model of main.py of ya-weather-api: the in-process cache, the text    *)
(* normalizers, the condition mapping, the two page extractors and the two *)
(* request handlers get_weather_total / get_weather_month.                 *)
(*                                                                         *)
(* Text.  A Python str is modelled as a sequence of characters, each        *)
(* character a one-element TLA+ string.  The module is ASCII, so a Cyrillic *)
(* letter is written by its transliteration ("ya" is the letter ya, "YA"   *)
(* its capital, "soft" the soft sign) and the degree glyph is "deg".        *)
(* Python's None is the one-element sequence None, whose element is no      *)
(* character of any text.                                                   *)
(***************************************************************************)
EXTENDS Integers, Sequences, FiniteSets, TLC

VARIABLES
    now,        \* datetime.now(timezone.utc), in minutes
    ticks,      \* how often the clock has advanced (bounds the model)
    cache,      \* _cache: a dict, key -> [ts, data]
    pc,         \* per worker thread: where its handler stands
    req,        \* per worker thread: the key (scope, lat, lon) of its request
    entry,      \* per worker thread: the local `entry` of _get_cached
    data,       \* per worker thread: the local `data` of the handler
    newts,      \* per worker thread: the timestamp _set_cached has read
    resp,       \* per worker thread: the response of the finished request
    step,       \* per worker thread: the step that decided the response
    fetches,    \* per worker thread: calls of requests.get in this request
    parses,     \* per worker thread: calls of the extractor in this request
    started,    \* requests started so far (bounds the model)
    written,    \* per key: the entries the _set_cached calls have built
    laststore,  \* per key: the entry the latest _set_cached call has built
    input,      \* the argument of the function under check (function specs)
    output,     \* its result
    fpc         \* "in" before the function is applied, "out" after

hvars == <<now, ticks, cache, pc, req, entry, data, newts, resp, step,
           fetches, parses, started, written, laststore>>
fvars == <<input, output, fpc>>
vars == <<hvars, fvars>>

----------------------------------------------------------------------------
(* Text primitives *)

None == <<"<None>">>

\* `not text` of an Optional[str]: None and the empty string are both falsy
Falsy(text) == text = None \/ text = <<>>

Digits == {"0", "1", "2", "3", "4", "5", "6", "7", "8", "9"}
Whitespace == {" ", "\t", "\n"}
Signs == {"+", "-"}

\* `needle in text`
IsSubstring(needle, text) ==
    \E i \in 1..(Len(text) - Len(needle) + 1) :
        SubSeq(text, i, i + Len(needle) - 1) = needle

RECURSIVE LStrip(_)
LStrip(text) ==
    IF text # <<>> /\ Head(text) \in Whitespace THEN LStrip(Tail(text)) ELSE text

RECURSIVE RStrip(_)
RStrip(text) ==
    IF text # <<>> /\ text[Len(text)] \in Whitespace
    THEN RStrip(SubSeq(text, 1, Len(text) - 1))
    ELSE text

\* str.strip()
Strip(text) == RStrip(LStrip(text))

LowerOf ==
    [c \in {"A", "B", "V", "G", "D", "E", "ZH", "Z", "I", "J", "K", "L", "M",
            "N", "O", "P", "R", "S", "T", "U", "F", "H", "C", "CH", "SH",
            "SCH", "Y", "EE", "YU", "YA"} |->
        CASE c = "A" -> "a" [] c = "B" -> "b" [] c = "V" -> "v"
          [] c = "G" -> "g" [] c = "D" -> "d" [] c = "E" -> "e"
          [] c = "ZH" -> "zh" [] c = "Z" -> "z" [] c = "I" -> "i"
          [] c = "J" -> "j" [] c = "K" -> "k" [] c = "L" -> "l"
          [] c = "M" -> "m" [] c = "N" -> "n" [] c = "O" -> "o"
          [] c = "P" -> "p" [] c = "R" -> "r" [] c = "S" -> "s"
          [] c = "T" -> "t" [] c = "U" -> "u" [] c = "F" -> "f"
          [] c = "H" -> "h" [] c = "C" -> "c" [] c = "CH" -> "ch"
          [] c = "SH" -> "sh" [] c = "SCH" -> "sch" [] c = "Y" -> "y"
          [] c = "EE" -> "ee" [] c = "YU" -> "yu" [] c = "YA" -> "ya"]

\* str.lower()
Lower(text) ==
    [i \in 1..Len(text) |->
        IF text[i] \in DOMAIN LowerOf THEN LowerOf[text[i]] ELSE text[i]]

----------------------------------------------------------------------------
(* Normalizer helpers, main.py 47-75 *)

\* the end of the run of digits that starts at j, j - 1 when there is none
RECURSIVE DigitRunEnd(_, _)
DigitRunEnd(text, j) ==
    IF j <= Len(text) /\ text[j] \in Digits THEN DigitRunEnd(text, j + 1) ELSE j - 1

\* the pattern without its optional sign, \d+deg
TempMatchEnd_nosign(text, i) ==
    LET k == DigitRunEnd(text, i)
    IN  IF k >= i /\ k + 1 <= Len(text) /\ text[k + 1] = "deg" THEN k + 1 ELSE 0

\* re.match of [+-]?\d+deg at position i: the end of the match, 0 for no match.
\* The optional sign is greedy and backtracking over it cannot help (a sign is
\* no digit); \d+ is greedy and a shorter run is followed by a digit, not deg.
TempMatchEnd(text, i) ==
    LET j == IF text[i] \in Signs THEN i + 1 ELSE i
        k == DigitRunEnd(text, j)
    IN  IF k >= j /\ k + 1 <= Len(text) /\ text[k + 1] = "deg" THEN k + 1 ELSE 0

\* re.search(r'[+-]?\d+deg', text) from position i on: the match, or None
RECURSIVE TempSearch(_, _)
TempSearch(text, i) ==
    IF i > Len(text) THEN None
    ELSE IF TempMatchEnd(text, i) # 0 THEN SubSeq(text, i, TempMatchEnd(text, i))
    ELSE TempSearch(text, i + 1)

\* re.search(r'\d+', text) from position i on: the match, or None
RECURSIVE DigitSearch(_, _)
DigitSearch(text, i) ==
    IF i > Len(text) THEN None
    ELSE IF text[i] \in Digits THEN SubSeq(text, i, DigitRunEnd(text, i))
    ELSE DigitSearch(text, i + 1)

_extract_temperature(text) == IF Falsy(text) THEN None ELSE TempSearch(text, 1)

_extract_wind(text) == IF Falsy(text) THEN None ELSE Strip(text)

_extract_pressure(text) == IF Falsy(text) THEN None ELSE DigitSearch(text, 1)

_extract_humidity(text) == IF Falsy(text) THEN None ELSE DigitSearch(text, 1)

----------------------------------------------------------------------------
(* Condition mapping, main.py 78-119.  The phrases are the string literals  *)
(* of the rules; a code is an atom, the one-element sequence of its name.   *)

sp == <<" ">>
oblachno == <<"o", "b", "l", "a", "ch", "n", "o">>
dozhd == <<"d", "o", "zh", "d", "soft">>
sneg == <<"s", "n", "e", "g">>
nebolshoj == <<"n", "e", "b", "o", "l", "soft", "sh", "o", "j">>
slabyj == <<"s", "l", "a", "b", "y", "j">>
silnyj == <<"s", "i", "l", "soft", "n", "y", "j">>

yasno == <<"ya", "s", "n", "o">>
malooblachno == <<"m", "a", "l", "o">> \o oblachno
peremennaya_oblachnost ==
    <<"p", "e", "r", "e", "m", "e", "n", "n", "a", "ya">> \o sp \o oblachno
        \o <<"s", "t", "soft">>
oblachno_s_proyasneniyami ==
    oblachno \o sp \o <<"s">> \o sp
        \o <<"p", "r", "o", "ya", "s", "n", "e", "n", "i", "ya", "m", "i">>
pasmurno == <<"p", "a", "s", "m", "u", "r", "n", "o">>
nebolshoj_dozhd == nebolshoj \o sp \o dozhd
slabyj_dozhd == slabyj \o sp \o dozhd
liven == <<"l", "i", "v", "e", "n", "soft">>
silnyj_dozhd == silnyj \o sp \o dozhd
groza == <<"g", "r", "o", "z", "a">>
nebolshoj_sneg == nebolshoj \o sp \o sneg
slabyj_sneg == slabyj \o sp \o sneg
metel == <<"m", "e", "t", "e", "l", "soft">>
silnyj_sneg == silnyj \o sp \o sneg
tuman == <<"t", "u", "m", "a", "n">>
mgla == <<"m", "g", "l", "a">>
dymka == <<"d", "y", "m", "k", "a">>
moros == <<"m", "o", "r", "o", "s", "soft">>
grad == <<"g", "r", "a", "d">>

\* the rule for "oblachno" tried before the rule for "oblachno s proyasneniyami"
_map_condition_to_code_reordered(condition_text) ==
    IF Falsy(condition_text) THEN None
    ELSE LET text == Lower(condition_text) IN
        IF IsSubstring(yasno, text) THEN <<"clear">>
        ELSE IF IsSubstring(malooblachno, text)
                \/ IsSubstring(peremennaya_oblachnost, text) THEN <<"partly-cloudy">>
        ELSE IF IsSubstring(oblachno, text) THEN <<"cloudy">>
        ELSE IF IsSubstring(oblachno_s_proyasneniyami, text) THEN <<"cloudy-and-clear">>
        ELSE IF IsSubstring(pasmurno, text) THEN <<"overcast">>
        ELSE IF IsSubstring(nebolshoj_dozhd, text)
                \/ IsSubstring(slabyj_dozhd, text) THEN <<"light-rain">>
        ELSE IF IsSubstring(dozhd, text) THEN <<"rain">>
        ELSE IF IsSubstring(liven, text)
                \/ IsSubstring(silnyj_dozhd, text) THEN <<"heavy-rain">>
        ELSE IF IsSubstring(groza, text) THEN <<"thunderstorm">>
        ELSE IF IsSubstring(nebolshoj_sneg, text)
                \/ IsSubstring(slabyj_sneg, text) THEN <<"light-snow">>
        ELSE IF IsSubstring(sneg, text) THEN <<"snow">>
        ELSE IF IsSubstring(metel, text)
                \/ IsSubstring(silnyj_sneg, text) THEN <<"heavy-snow">>
        ELSE IF IsSubstring(tuman, text) THEN <<"fog">>
        ELSE IF IsSubstring(mgla, text) \/ IsSubstring(dymka, text) THEN <<"haze">>
        ELSE IF IsSubstring(moros, text) THEN <<"drizzle">>
        ELSE IF IsSubstring(grad, text) THEN <<"hail">>
        ELSE <<"unknown">>

_map_condition_to_code(condition_text) ==
    IF Falsy(condition_text) THEN None
    ELSE LET text == Lower(condition_text) IN
        IF IsSubstring(yasno, text) THEN <<"clear">>
        ELSE IF IsSubstring(malooblachno, text)
                \/ IsSubstring(peremennaya_oblachnost, text) THEN <<"partly-cloudy">>
        ELSE IF IsSubstring(oblachno_s_proyasneniyami, text) THEN <<"cloudy-and-clear">>
        ELSE IF IsSubstring(oblachno, text) THEN <<"cloudy">>
        ELSE IF IsSubstring(pasmurno, text) THEN <<"overcast">>
        ELSE IF IsSubstring(nebolshoj_dozhd, text)
                \/ IsSubstring(slabyj_dozhd, text) THEN <<"light-rain">>
        ELSE IF IsSubstring(dozhd, text) THEN <<"rain">>
        ELSE IF IsSubstring(liven, text)
                \/ IsSubstring(silnyj_dozhd, text) THEN <<"heavy-rain">>
        ELSE IF IsSubstring(groza, text) THEN <<"thunderstorm">>
        ELSE IF IsSubstring(nebolshoj_sneg, text)
                \/ IsSubstring(slabyj_sneg, text) THEN <<"light-snow">>
        ELSE IF IsSubstring(sneg, text) THEN <<"snow">>
        ELSE IF IsSubstring(metel, text)
                \/ IsSubstring(silnyj_sneg, text) THEN <<"heavy-snow">>
        ELSE IF IsSubstring(tuman, text) THEN <<"fog">>
        ELSE IF IsSubstring(mgla, text) \/ IsSubstring(dymka, text) THEN <<"haze">>
        ELSE IF IsSubstring(moros, text) THEN <<"drizzle">>
        ELSE IF IsSubstring(grad, text) THEN <<"hail">>
        ELSE <<"unknown">>

----------------------------------------------------------------------------
(* The pages.  BeautifulSoup's view of a page is modelled by what the       *)
(* selectors of the extractors find in it: a selector's result is the       *)
(* sequence of the elements it matches, in document order (select_one is    *)
(* its first element, if any); an element is its text, or a record of what  *)
(* the selectors applied to it find.  An element holds one text node, so    *)
(* get_text(strip=True) is the stripped text.  A class name is a sequence   *)
(* of its parts, so that `"climateStart" in cls` is a substring test.       *)

\* x.text.strip() if x else None, for the result x of a select_one
StrippedTextOrNone(found) == IF found = <<>> THEN None ELSE Strip(found[1])

\* detail_at / param_at: items[index].get_text(strip=True), None on IndexError
ItemAt(items, index) == IF index + 1 <= Len(items) THEN Strip(items[index + 1]) ELSE None

\* the first of the three lookups of parse_weather that finds a block
FindWrap(page) ==
    IF page.exact # <<>> THEN page.exact
    ELSE IF page.substr # <<>> THEN page.substr
    ELSE page.leaf

ParseError(msg) == [ok |-> FALSE, err |-> msg, data |-> <<>>]
Parsed(d) == [ok |-> TRUE, err |-> "", data |-> d]

\* main.py 122-177
parse_weather(page) ==
    IF FindWrap(page) = <<>> THEN ParseError("Weather block not found in the page")
    ELSE
    LET wrap == FindWrap(page)[1]
        tb == wrap.temperature_block
        \* x.text if x else "", x a select_one within the temperature block
        text_of(found) == IF found # <<>> THEN found[1] ELSE <<>>
        sign == IF tb # <<>> THEN tb[1].sign ELSE <<>>
        value == IF tb # <<>> THEN tb[1].value ELSE <<>>
        degree == IF tb # <<>> THEN tb[1].degree ELSE <<>>
        joined == Strip(text_of(sign) \o text_of(value) \o text_of(degree))
        condition_text == StrippedTextOrNone(wrap.warning)
    IN  Parsed([temperature |-> IF joined = <<>> THEN None ELSE joined,
                condition |-> _map_condition_to_code(condition_text),
                condition_text |-> condition_text,
                feels_like |-> _extract_temperature(StrippedTextOrNone(wrap.feels)),
                yesterday_full |->
                    _extract_temperature(StrippedTextOrNone(wrap.yesterday_full)),
                yesterday_short |->
                    _extract_temperature(StrippedTextOrNone(wrap.yesterday_short)),
                wind |-> _extract_wind(ItemAt(wrap.details, 0)),
                pressure |-> _extract_pressure(ItemAt(wrap.details, 1)),
                humidity |-> _extract_humidity(ItemAt(wrap.details, 2)),
                water_temperature |-> ItemAt(wrap.details, 3)])

\* any("climateStart" in cls for cls in classes), classes those of the
\* enclosing li, [] when there is none
IsClimateStart(day_block) ==
    /\ day_block.li # <<>>
    /\ \E i \in 1..Len(day_block.li[1]) :
          IsSubstring(<<"climateStart">>, day_block.li[1][i])

\* the text of the first temperature span marked night, None when there is none
RECURSIVE NightTemp(_)
NightTemp(temp_spans) ==
    IF temp_spans = <<>> THEN None
    ELSE IF Head(temp_spans).night THEN Strip(Head(temp_spans).text)
    ELSE NightTemp(Tail(temp_spans))

\* the dict appended for one day block, main.py 197-231
DayEntry(day_block) ==
    LET link == day_block.link
        title == IF link # <<>> THEN link[1].aria_label ELSE None
        date_text == IF link # <<>> THEN Strip(link[1].text) ELSE None
        temp_spans == day_block.temp_spans
        details == day_block.details
        feels == IF details # <<>> THEN details[1].feels ELSE <<>>
        params == IF details # <<>> THEN details[1].params ELSE <<>>
    IN  [title |-> IF Falsy(title) THEN date_text ELSE title,
         label |-> date_text,
         day_temp |-> IF Len(temp_spans) > 0 THEN Strip(temp_spans[1].text) ELSE None,
         night_temp |-> NightTemp(temp_spans),
         feels_like |-> _extract_temperature(StrippedTextOrNone(feels)),
         pressure |-> _extract_pressure(ItemAt(params, 0)),
         humidity |-> _extract_humidity(ItemAt(params, 1)),
         wind |-> _extract_wind(ItemAt(params, 2)),
         water_temperature |-> ItemAt(params, 3)]

\* a loop that keeps the climateStart rows, with their fields set to None
RECURSIVE MonthLoop_nulled(_, _)
MonthLoop_nulled(blocks, days) ==
    IF blocks = <<>> THEN days
    ELSE IF IsClimateStart(Head(blocks))
    THEN MonthLoop_nulled(Tail(blocks),
                          Append(days, [f \in DOMAIN DayEntry(Head(blocks)) |-> None]))
    ELSE MonthLoop_nulled(Tail(blocks), Append(days, DayEntry(Head(blocks))))

\* the for loop of parse_month, main.py 191-231: `days` after the blocks left
RECURSIVE MonthLoop(_, _)
MonthLoop(blocks, days) ==
    IF blocks = <<>> THEN days
    ELSE IF IsClimateStart(Head(blocks)) THEN MonthLoop(Tail(blocks), days)
    ELSE MonthLoop(Tail(blocks), Append(days, DayEntry(Head(blocks))))

\* main.py 180-236
parse_month(page) ==
    IF page.article = <<>> THEN ParseError("Month block not found in the page")
    ELSE LET days == MonthLoop(page.article[1], <<>>)
         IN  IF days = <<>> THEN ParseError("No day entries found in month view")
             ELSE Parsed(days)

----------------------------------------------------------------------------
(* Pages the upstream serves in the handlers' model *)

t_feels == <<"O", "sch", "u", "sch", "a", "e", "t", "s", "ya", " ", "k", "a", "k",
             " ", "+", "1", "deg">>
t_wind == <<"S", "Z", ",", " ", "3", " ", "m", "/", "s">>
t_pressure == <<"7", "5", "8", " ", "m", "m", " ", "r", "t", ".", " ", "s", "t", ".">>
t_humidity == <<"6", "5", "%">>
t_water == <<"1", "8", "deg">>

\* the fact block of the fixture of spec section 8
FactBlock ==
    [temperature_block |-> <<[sign |-> <<<<"+">>>>, value |-> <<<<"3">>>>,
                              degree |-> <<<<"deg">>>>]>>,
     warning |-> <<<<"O">> \o Tail(oblachno_s_proyasneniyami) \o <<"\n">>>>,
     feels |-> <<t_feels>>,
     yesterday_full |-> <<>>,
     yesterday_short |-> <<<<"-", "2", "deg">>>>,
     details |-> <<t_wind, t_pressure, t_humidity, t_water>>]

\* a fact block found only through its temperature value, with little in it
BareBlock ==
    [temperature_block |-> <<>>,
     warning |-> <<>>,
     feels |-> <<<<"n", "e", "t">>>>,
     yesterday_full |-> <<>>,
     yesterday_short |-> <<>>,
     details |-> <<<<" ">>, <<"7", "4", "0">>>>]

FactPage == [exact |-> <<FactBlock>>, substr |-> <<FactBlock>>, leaf |-> <<FactBlock>>]
BarePage == [exact |-> <<>>, substr |-> <<>>, leaf |-> <<BareBlock>>]
NoFactPage == [exact |-> <<>>, substr |-> <<>>, leaf |-> <<>>]

cls_item == <<"AppMonthCalendar_calendar__item__", "2xTqA">>
cls_climate == <<"AppMonthCalendar_calendar__item_", "climateStart", "__Zj1n0">>

\* a day in a list item, with everything present
DayFull ==
    [li |-> <<<<cls_item>>>>,
     link |-> <<[aria_label |-> <<"1", " ", "n", "o", "ya", "b", "r", "ya">>,
                 text |-> <<" ", "1">>]>>,
     temp_spans |-> <<[text |-> <<"+", "5", "deg">>, night |-> FALSE],
                      [text |-> <<"-", "1", "deg", " ">>, night |-> TRUE]>>,
     details |-> <<[feels |-> <<t_feels>>,
                    params |-> <<t_pressure, t_humidity, t_wind, t_water>>]>>]

\* a day outside any list item, with a bare link and one temperature
DayBare ==
    [li |-> <<>>,
     link |-> <<[aria_label |-> None, text |-> <<"2">>]>>,
     temp_spans |-> <<[text |-> <<"+", "4", "deg">>, night |-> FALSE]>>,
     details |-> <<>>]

\* a day with no link at all
DayNoLink ==
    [li |-> <<<<cls_item, <<"today">>>>>>,
     link |-> <<>>,
     temp_spans |-> <<>>,
     details |-> <<[feels |-> <<>>, params |-> <<t_pressure>>]>>]

\* the placeholder row: a day block like any other, in a climateStart item
DayClimate ==
    [li |-> <<<<cls_item, cls_climate>>>>,
     link |-> <<[aria_label |-> None, text |-> <<"3">>]>>,
     temp_spans |-> <<[text |-> <<"+", "1", "deg">>, night |-> FALSE]>>,
     details |-> <<>>]

MonthPage == [article |-> <<<<DayFull, DayClimate, DayBare>>>>]
ShortMonthPage == [article |-> <<<<DayBare>>>>]
ClimateOnlyPage == [article |-> <<<<DayClimate>>>>]
NoMonthPage == [article |-> <<>>]

\* response.text, by the URL fetched
PagesOf(scope) ==
    IF scope = "current" THEN {FactPage, BarePage, NoFactPage}
    ELSE {MonthPage, ShortMonthPage, ClimateOnlyPage, NoMonthPage}

\* the extractor each handler calls
Extract(scope, page) ==
    IF scope = "current" THEN parse_weather(page) ELSE parse_month(page)

----------------------------------------------------------------------------
(* The cache, main.py 13-14 and 32-44 *)

\* timedelta(minutes=15)
CACHE_TTL == 15

MaxTicks == 2
MaxRequests == 2

Threads == {"w1", "w2"}
Scopes == {"current", "month"}
Coords == {<<55, 37>>}
Keys == {<<s, c[1], c[2]>> : s \in Scopes, c \in Coords}

\* the clock advances by a minute, or by the time-to-live
ClockSteps == {1, CACHE_TTL}

\* _cache.get(key): the entry in a one-element sequence, <<>> for None
CacheGet(key) == IF key \in DOMAIN cache THEN <<cache[key]>> ELSE <<>>

\* an entry counted as expired when it is exactly CACHE_TTL old
IsExpired_at_ttl(e, t) == t - e.ts >= CACHE_TTL

\* datetime.now(timezone.utc) - entry["ts"] > CACHE_TTL
IsExpired(e, t) == t - e.ts > CACHE_TTL

\* the rest of _get_cached after `entry = _cache.get(key)`, at time t:
\* entry["data"] in a one-element sequence, <<>> for None
GetCachedResult(found, t) ==
    IF found = <<>> THEN <<>>
    ELSE IF IsExpired(found[1], t) THEN <<>>
    ELSE <<found[1].data>>

\* `if cached:` in a handler: a dict of ten keys is truthy, a list when not empty
Truthy(scope, cached) ==
    /\ cached # <<>>
    /\ scope = "month" => cached[1] # <<>>

\* a store that keeps the old value of what is None (or missing) in the new
SetCached_merge(c, key, ts, d) ==
    LET merged ==
            IF key \notin DOMAIN c THEN d
            ELSE IF key[1] = "month"
            THEN d \o SubSeq(c[key].data, Len(d) + 1, Len(c[key].data))
            ELSE [f \in DOMAIN d |-> IF d[f] = None THEN c[key].data[f] ELSE d[f]]
    IN  [k \in DOMAIN c \cup {key} |->
            IF k = key THEN [ts |-> ts, data |-> merged] ELSE c[k]]

\* _cache[key] = {"ts": ts, "data": data}: the dict afterwards
SetCached(c, key, ts, d) ==
    [k \in DOMAIN c \cup {key} |-> IF k = key THEN [ts |-> ts, data |-> d] ELSE c[k]]

----------------------------------------------------------------------------
(* The handlers, main.py 239-299.  get_weather_total and get_weather_month  *)
(* are the same code but for the scope, the URL and the extractor; a worker *)
(* thread runs one request at a time.  A handler is cut where another       *)
(* thread's step can change what it reads next: after `_cache.get(key)` in  *)
(* _get_cached, and after `datetime.now()` in _set_cached.                  *)

Response(status, cached, d, detail) ==
    [status |-> status, cached |-> cached, data |-> d, detail |-> detail]

HInit ==
    /\ now = 0
    /\ ticks = 0
    /\ cache = <<>>
    /\ pc = [t \in Threads |-> "idle"]
    /\ req = [t \in Threads |-> <<>>]
    /\ entry = [t \in Threads |-> <<>>]
    /\ data = [t \in Threads |-> <<>>]
    /\ newts = [t \in Threads |-> <<>>]
    /\ resp = [t \in Threads |-> <<>>]
    /\ step = [t \in Threads |-> ""]
    /\ fetches = [t \in Threads |-> 0]
    /\ parses = [t \in Threads |-> 0]
    /\ started = 0
    /\ written = [k \in Keys |-> {}]
    /\ laststore = [k \in Keys |-> <<>>]

FIdle == input = <<>> /\ output = <<>> /\ fpc = "idle"

Init == HInit /\ FIdle

\* time passes
Tick(d) ==
    /\ ticks < MaxTicks
    /\ now' = now + d
    /\ ticks' = ticks + 1
    /\ UNCHANGED <<cache, pc, req, entry, data, newts, resp, step, fetches, parses,
                   started, written, laststore, fvars>>

\* a request arrives; the handler enters _get_cached and reads the entry
Begin(t, key) ==
    /\ pc[t] = "idle"
    /\ started < MaxRequests
    /\ started' = started + 1
    /\ req' = [req EXCEPT ![t] = key]
    /\ entry' = [entry EXCEPT ![t] = CacheGet(key)]
    /\ pc' = [pc EXCEPT ![t] = "lookup"]
    /\ UNCHANGED <<now, ticks, cache, data, newts, resp, step, fetches, parses,
                   written, laststore, fvars>>

\* a primary hit that also renews the entry's timestamp
Lookup_refresh(t) ==
    /\ pc[t] = "lookup"
    /\ LET cached == GetCachedResult(entry[t], now) IN
        IF Truthy(req[t][1], cached)
        THEN /\ resp' = [resp EXCEPT ![t] = <<Response(200, TRUE, cached[1], "")>>]
             /\ step' = [step EXCEPT ![t] = "primary"]
             /\ pc' = [pc EXCEPT ![t] = "done"]
             /\ cache' = SetCached(cache, req[t], now, cached[1])
        ELSE /\ pc' = [pc EXCEPT ![t] = "fetch"]
             /\ UNCHANGED <<resp, step, cache>>
    /\ UNCHANGED <<now, ticks, req, entry, data, newts, fetches, parses,
                   started, written, laststore, fvars>>

\* the primary lookup ends: a hit returns, a miss goes on to the fetch
Lookup(t) ==
    /\ pc[t] = "lookup"
    /\ LET cached == GetCachedResult(entry[t], now) IN
        IF Truthy(req[t][1], cached)
        THEN /\ resp' = [resp EXCEPT ![t] = <<Response(200, TRUE, cached[1], "")>>]
             /\ step' = [step EXCEPT ![t] = "primary"]
             /\ pc' = [pc EXCEPT ![t] = "done"]
        ELSE /\ pc' = [pc EXCEPT ![t] = "fetch"]
             /\ UNCHANGED <<resp, step>>
    /\ UNCHANGED <<now, ticks, cache, req, entry, data, newts, fetches, parses,
                   started, written, laststore, fvars>>

\* a handler that fetches again after a failed fetch
FetchFail_retry(t) ==
    /\ pc[t] = "fetch"
    /\ fetches' = [fetches EXCEPT ![t] = @ + 1]
    /\ UNCHANGED <<now, ticks, cache, pc, req, entry, data, newts, resp, step,
                   parses, started, written, laststore, fvars>>

\* requests.get or raise_for_status raises RequestException; the except
\* clause enters _get_cached and reads the entry
FetchFail(t) ==
    /\ pc[t] = "fetch"
    /\ fetches' = [fetches EXCEPT ![t] = @ + 1]
    /\ step' = [step EXCEPT ![t] = "fetch_failed"]
    /\ entry' = [entry EXCEPT ![t] = CacheGet(req[t])]
    /\ pc' = [pc EXCEPT ![t] = "fallback"]
    /\ UNCHANGED <<now, ticks, cache, req, data, newts, resp, parses,
                   started, written, laststore, fvars>>

\* the fetch returns a page and the extractor raises ValueError; the except
\* clause enters _get_cached and reads the entry
ParseFail(t) ==
    /\ pc[t] = "fetch"
    /\ \E page \in PagesOf(req[t][1]) :
        /\ ~Extract(req[t][1], page).ok
        /\ fetches' = [fetches EXCEPT ![t] = @ + 1]
        /\ parses' = [parses EXCEPT ![t] = @ + 1]
        /\ step' = [step EXCEPT ![t] = Extract(req[t][1], page).err]
        /\ entry' = [entry EXCEPT ![t] = CacheGet(req[t])]
        /\ pc' = [pc EXCEPT ![t] = "fallback"]
        /\ UNCHANGED <<now, ticks, cache, req, data, newts, resp,
                       started, written, laststore, fvars>>

\* a _set_cached that writes the timestamp into the present entry first
ParseOk_torn(t) ==
    /\ pc[t] = "fetch"
    /\ \E page \in PagesOf(req[t][1]) :
        /\ Extract(req[t][1], page).ok
        /\ fetches' = [fetches EXCEPT ![t] = @ + 1]
        /\ parses' = [parses EXCEPT ![t] = @ + 1]
        /\ data' = [data EXCEPT ![t] = <<Extract(req[t][1], page).data>>]
        /\ newts' = [newts EXCEPT ![t] = <<now>>]
        /\ cache' = IF req[t] \in DOMAIN cache
                    THEN [cache EXCEPT ![req[t]].ts = now]
                    ELSE cache
        /\ pc' = [pc EXCEPT ![t] = "store"]
        /\ UNCHANGED <<now, ticks, req, entry, resp, step,
                       started, written, laststore, fvars>>

\* the fetch returns a page and the extractor a record; the handler enters
\* _set_cached, which reads the clock for the entry it builds
ParseOk(t) ==
    /\ pc[t] = "fetch"
    /\ \E page \in PagesOf(req[t][1]) :
        /\ Extract(req[t][1], page).ok
        /\ fetches' = [fetches EXCEPT ![t] = @ + 1]
        /\ parses' = [parses EXCEPT ![t] = @ + 1]
        /\ data' = [data EXCEPT ![t] = <<Extract(req[t][1], page).data>>]
        /\ newts' = [newts EXCEPT ![t] = <<now>>]
        /\ pc' = [pc EXCEPT ![t] = "store"]
        /\ UNCHANGED <<now, ticks, cache, req, entry, resp, step,
                       started, written, laststore, fvars>>

\* the lookup of an except clause ends: the entry's payload, or the error of
\* the step that failed (502 after the fetch, 500 after the extraction)
Fallback(t) ==
    /\ pc[t] = "fallback"
    /\ LET cached == GetCachedResult(entry[t], now) IN
        IF Truthy(req[t][1], cached)
        THEN resp' = [resp EXCEPT ![t] = <<Response(200, TRUE, cached[1], "")>>]
        ELSE IF step[t] = "fetch_failed"
        THEN resp' = [resp EXCEPT ![t] =
                        <<Response(502, FALSE, <<>>, "Failed to fetch source page")>>]
        ELSE resp' = [resp EXCEPT ![t] = <<Response(500, FALSE, <<>>, step[t])>>]
    /\ pc' = [pc EXCEPT ![t] = "done"]
    /\ UNCHANGED <<now, ticks, cache, req, entry, data, newts, step, fetches, parses,
                   started, written, laststore, fvars>>

\* _set_cached assigns the entry it built, and the handler returns the record
Store(t) ==
    /\ pc[t] = "store"
    /\ cache' = SetCached(cache, req[t], newts[t][1], data[t][1])
    /\ written' = [written EXCEPT ![req[t]] =
                      @ \cup {[ts |-> newts[t][1], data |-> data[t][1]]}]
    /\ laststore' = [laststore EXCEPT ![req[t]] =
                      <<[ts |-> newts[t][1], data |-> data[t][1]]>>]
    /\ resp' = [resp EXCEPT ![t] = <<Response(200, FALSE, data[t][1], "")>>]
    /\ step' = [step EXCEPT ![t] = "stored"]
    /\ pc' = [pc EXCEPT ![t] = "done"]
    /\ UNCHANGED <<now, ticks, req, entry, data, newts, fetches, parses,
                   started, fvars>>

\* the response is sent and the worker is free again; the handler's locals
\* are gone with its frame
Return(t) ==
    /\ pc[t] = "done"
    /\ pc' = [pc EXCEPT ![t] = "idle"]
    /\ req' = [req EXCEPT ![t] = <<>>]
    /\ entry' = [entry EXCEPT ![t] = <<>>]
    /\ data' = [data EXCEPT ![t] = <<>>]
    /\ newts' = [newts EXCEPT ![t] = <<>>]
    /\ resp' = [resp EXCEPT ![t] = <<>>]
    /\ step' = [step EXCEPT ![t] = ""]
    /\ fetches' = [fetches EXCEPT ![t] = 0]
    /\ parses' = [parses EXCEPT ![t] = 0]
    /\ UNCHANGED <<now, ticks, cache, started, written, laststore, fvars>>

Next ==
    \/ \E d \in ClockSteps : Tick(d)
    \/ \E t \in Threads, key \in Keys : Begin(t, key)
    \/ \E t \in Threads : Lookup(t)
    \/ \E t \in Threads : FetchFail(t)
    \/ \E t \in Threads : ParseFail(t)
    \/ \E t \in Threads : ParseOk(t)
    \/ \E t \in Threads : Fallback(t)
    \/ \E t \in Threads : Store(t)
    \/ \E t \in Threads : Return(t)

Spec == Init /\ [][Next]_vars

----------------------------------------------------------------------------
(* The pure functions, each applied to every input of a bounded set *)

MaxLen == 4
MaxParts == 2
MaxBlocks == 3

\* all sequences over S of length at most n
SeqsUpTo(S, n) == UNION {[1..m -> S] : m \in 0..n}

RECURSIVE Join(_)
Join(parts) == IF parts = <<>> THEN <<>> ELSE Head(parts) \o Join(Tail(parts))

NormChars == {"+", "-", "5", "7", "deg", " ", "\n", "x"}
NormInputs == {None} \cup SeqsUpTo(NormChars, MaxLen)

\* pieces of condition texts: a text is None or up to MaxParts pieces in a row
CondFragments ==
    {yasno, <<"YA", "S", "N", "O">>, <<"m", "a", "l", "o">>, oblachno,
     <<"O">> \o Tail(oblachno), <<"s", "t", "soft">>,
     sp \o <<"s">> \o sp
        \o <<"p", "r", "o", "ya", "s", "n", "e", "n", "i", "ya", "m", "i">>,
     <<"p", "e", "r", "e", "m", "e", "n", "n", "a", "ya">> \o sp,
     pasmurno, nebolshoj \o sp, slabyj \o sp, silnyj \o sp, dozhd, sneg, liven,
     groza, <<"g", "r", "o", "z", "o", "j">>, metel, tuman, mgla, dymka, moros,
     grad, sp, <<"i">>}
CondInputs == {None} \cup {Join(parts) : parts \in SeqsUpTo(CondFragments, MaxParts)}

BlockKinds == {DayFull, DayBare, DayNoLink, DayClimate}
MonthInputs ==
    {NoMonthPage} \cup {[article |-> <<blocks>>] : blocks \in SeqsUpTo(BlockKinds, MaxBlocks)}

ApplyNormalizers ==
    /\ fpc = "in"
    /\ output' = [temperature |-> _extract_temperature(input),
                  wind |-> _extract_wind(input),
                  pressure |-> _extract_pressure(input),
                  humidity |-> _extract_humidity(input)]
    /\ fpc' = "out"
    /\ UNCHANGED <<input, hvars>>

InitNorm == HInit /\ input \in NormInputs /\ output = <<>> /\ fpc = "in"
NextNorm == ApplyNormalizers
SpecNorm == InitNorm /\ [][NextNorm]_vars

ApplyCondition ==
    /\ fpc = "in"
    /\ output' = _map_condition_to_code(input)
    /\ fpc' = "out"
    /\ UNCHANGED <<input, hvars>>

InitCond == HInit /\ input \in CondInputs /\ output = <<>> /\ fpc = "in"
NextCond == ApplyCondition
SpecCond == InitCond /\ [][NextCond]_vars

ApplyParseMonth ==
    /\ fpc = "in"
    /\ output' = parse_month(input)
    /\ fpc' = "out"
    /\ UNCHANGED <<input, hvars>>

InitMonth == HInit /\ input \in MonthInputs /\ output = <<>> /\ fpc = "in"
NextMonth == ApplyParseMonth
SpecMonth == InitMonth /\ [][NextMonth]_vars

----------------------------------------------------------------------------
(* Claims about the pure functions *)

\* an optional sign, one or more digits, a degree glyph
IsTempShape(s) ==
    /\ Len(s) >= 2
    /\ s[Len(s)] = "deg"
    /\ LET body == SubSeq(s, 1, Len(s) - 1)
           digits == IF body[1] \in Signs THEN Tail(body) ELSE body
       IN  digits # <<>> /\ \A i \in 1..Len(digits) : digits[i] \in Digits

\* where the substrings of text that satisfy Shape lie
Places(text, Shape(_)) ==
    {p \in (1..Len(text)) \X (1..Len(text)) :
        p[1] <= p[2] /\ Shape(SubSeq(text, p[1], p[2]))}

IsDigitRun(s) == \A i \in 1..Len(s) : s[i] \in Digits

\* r is the first substring of text of the shape: none starts before it, and
\* none that starts with it is longer
IsFirst(r, text, Shape(_)) ==
    \E p \in Places(text, Shape) :
        /\ r = SubSeq(text, p[1], p[2])
        /\ \A q \in Places(text, Shape) :
              p[1] < q[1] \/ (p[1] = q[1] /\ q[2] <= p[2])

\* r is text without its leading and trailing whitespace
IsTrimmed(r, text) ==
    LET inner == {i \in 1..Len(text) : text[i] \notin Whitespace}
    IN  IF inner = {} THEN r = <<>>
        ELSE \E i, j \in inner :
                /\ \A k \in inner : i <= k /\ k <= j
                /\ r = SubSeq(text, i, j)

\* the three pattern helpers: None exactly for None and for a text without
\* the pattern, else the first substring of the pattern
PatternHelpers ==
    /\ output.temperature = None <=> (input = None \/ Places(input, IsTempShape) = {})
    /\ output.temperature # None => IsFirst(output.temperature, input, IsTempShape)
    /\ output.pressure = None <=> (input = None \/ Places(input, IsDigitRun) = {})
    /\ output.pressure # None => IsFirst(output.pressure, input, IsDigitRun)
    /\ output.humidity = output.pressure

\* C9 as claimed: wind is None for None alone, and else the trimmed input
C9_Original ==
    fpc = "out" =>
        /\ PatternHelpers
        /\ output.wind = None <=> input = None
        /\ input # None => IsTrimmed(output.wind, input)

\* C9, amended: temperature is None exactly for None and for a text without
\* a sign-digits-degree substring and else the first such substring; pressure
\* and humidity likewise for the first run of digits; wind is None exactly
\* for None and for the empty string, and else the input trimmed of leading
\* and trailing whitespace
C9_Normalizers ==
    fpc = "out" =>
        /\ PatternHelpers
        /\ output.wind = None <=> (input = None \/ input = <<>>)
        /\ output.wind # None => IsTrimmed(output.wind, input)

C9_Witness ==
    /\ fpc = "out"
    /\ input = <<"\n", "-", "5", "deg">>
    /\ output.temperature = <<"-", "5", "deg">>
    /\ output.wind = <<"-", "5", "deg">>
    /\ output.pressure = <<"5">>

\* the vocabulary of spec section 3, in its priority order
Vocabulary ==
    << [phrases |-> {yasno}, code |-> "clear"],
       [phrases |-> {malooblachno, peremennaya_oblachnost}, code |-> "partly-cloudy"],
       [phrases |-> {oblachno_s_proyasneniyami}, code |-> "cloudy-and-clear"],
       [phrases |-> {oblachno}, code |-> "cloudy"],
       [phrases |-> {pasmurno}, code |-> "overcast"],
       [phrases |-> {nebolshoj_dozhd, slabyj_dozhd}, code |-> "light-rain"],
       [phrases |-> {dozhd}, code |-> "rain"],
       [phrases |-> {liven, silnyj_dozhd}, code |-> "heavy-rain"],
       [phrases |-> {groza}, code |-> "thunderstorm"],
       [phrases |-> {nebolshoj_sneg, slabyj_sneg}, code |-> "light-snow"],
       [phrases |-> {sneg}, code |-> "snow"],
       [phrases |-> {metel, silnyj_sneg}, code |-> "heavy-snow"],
       [phrases |-> {tuman}, code |-> "fog"],
       [phrases |-> {mgla, dymka}, code |-> "haze"],
       [phrases |-> {moros}, code |-> "drizzle"],
       [phrases |-> {grad}, code |-> "hail"] >>

\* the rules one of whose phrases is a substring of the lowercased text
Matching(text) ==
    {i \in 1..Len(Vocabulary) :
        \E phrase \in Vocabulary[i].phrases : IsSubstring(phrase, Lower(text))}

\* the code of the first matching rule, "unknown" when no rule matches
FirstRuleCode(text) ==
    IF Matching(text) = {} THEN "unknown"
    ELSE Vocabulary[CHOOSE i \in Matching(text) : \A j \in Matching(text) : i <= j].code

\* C8 as claimed: every string has the code of its first matching rule or
\* "unknown", and only None has no code
C8_Original ==
    fpc = "out" =>
        /\ output = None <=> input = None
        /\ input # None => output = <<FirstRuleCode(input)>>

\* C8, amended: every non-empty string has exactly the code of the first
\* rule, in the vocabulary's order, one of whose phrases is a substring of
\* the lowercased string, and "unknown" when no rule matches; None and the
\* empty string, and only they, have no code
C8_ConditionMapping ==
    fpc = "out" =>
        /\ output = None <=> (input = None \/ input = <<>>)
        /\ output # None => output = <<FirstRuleCode(input)>>

C8_Witness ==
    /\ fpc = "out"
    /\ input = <<"O">> \o Tail(oblachno_s_proyasneniyami)
    /\ Matching(input) = {3, 4}
    /\ output = <<"cloudy-and-clear">>

\* the enclosing list item of the block has a class that holds the marker
HasMarker(day_block) ==
    /\ day_block.li # <<>>
    /\ \E i \in 1..Len(day_block.li[1]) :
          \E k \in 1..Len(day_block.li[1][i]) : day_block.li[1][i][k] = "climateStart"

NoMarker(day_block) == ~HasMarker(day_block)

\* C7: with the month container, parse_month returns one entry per day block
\* without the climateStart marker, in document order, and none for a block
\* with it; "no entries" when that leaves nothing; "block not found" without
\* the container
C7_ParseMonth ==
    fpc = "out" =>
        IF input.article = <<>>
        THEN ~output.ok /\ output.err = "Month block not found in the page"
        ELSE LET real == SelectSeq(input.article[1], NoMarker) IN
            IF real = <<>>
            THEN ~output.ok /\ output.err = "No day entries found in month view"
            ELSE /\ output.ok
                 /\ Len(output.data) = Len(real)
                 /\ \A i \in 1..Len(real) : output.data[i] = DayEntry(real[i])

C7_Witness ==
    /\ fpc = "out"
    /\ input = MonthPage
    /\ output.ok
    /\ Len(output.data) = 2
    /\ output.data[2].label = <<"2">>

----------------------------------------------------------------------------
(* Claims about the cache and the handlers *)

ParseErrors == {"Weather block not found in the page",
                "Month block not found in the page",
                "No day entries found in month view"}

\* the request of thread t has ended with the entry's payload, from the cache
ServedFromCache(t) ==
    /\ pc[t] = "done"
    /\ resp[t][1].status = 200
    /\ resp[t][1].cached

\* C1 as claimed: when the fetch or the extraction has failed and the cache
\* held an entry for the key, of whatever age, the request returns that
\* entry's payload marked cached=true
C1_StaleFallback ==
    \A t \in Threads :
        (pc[t] = "done" /\ step[t] \in {"fetch_failed"} \cup ParseErrors /\ entry[t] # <<>>)
            => (ServedFromCache(t) /\ resp[t][1].data = entry[t][1].data)

\* C2 as claimed: an error response only when no entry exists for the key;
\* 502 and never 500 after a failed fetch, 500 and never 502 after a failed
\* extraction, no error after a successful extraction
C2_ErrorKinds ==
    \A t \in Threads :
        pc[t] = "done" =>
            /\ resp[t][1].status # 200 => entry[t] = <<>>
            /\ step[t] = "fetch_failed" => resp[t][1].status \in {200, 502}
            /\ step[t] \in ParseErrors => resp[t][1].status \in {200, 500}
            /\ step[t] \in {"primary", "stored"} => resp[t][1].status = 200

\* C3: a lookup, primary or of an except clause, returns the payload of the
\* entry it read exactly when there is one and the time of the lookup minus
\* its timestamp is at most CACHE_TTL; else it returns None, entry or not
C3_Lookup ==
    [][\A t \in Threads :
          (pc[t] \in {"lookup", "fallback"} /\ pc'[t] # pc[t]) =>
              LET hit == pc'[t] = "done" /\ resp'[t][1].status = 200
                            /\ resp'[t][1].cached
              IN  /\ hit <=> (entry[t] # <<>> /\ now - entry[t][1].ts <= CACHE_TTL)
                  /\ hit => resp'[t][1].data = entry[t][1].data]_vars

\* a primary lookup has missed an entry that is present and too old
C3_Witness ==
    \E t \in Threads :
        /\ pc[t] = "fetch"
        /\ entry[t] # <<>>
        /\ req[t] \in DOMAIN cache
        /\ cache[req[t]] = entry[t][1]
        /\ now - entry[t][1].ts = CACHE_TTL + 1

\* C4: the entry of a key is, whole, the entry the latest store for the key
\* built (the extracted record and the time the store read); a response is
\* marked cached=false exactly when its request extracted and stored, and
\* then it carries the record extracted
C4_Store ==
    /\ \A k \in Keys :
          IF laststore[k] = <<>> THEN k \notin DOMAIN cache
          ELSE k \in DOMAIN cache /\ cache[k] = laststore[k][1]
    /\ \A t \in Threads :
          pc[t] = "done" =>
              /\ (resp[t][1].status = 200 /\ ~resp[t][1].cached) <=> step[t] = "stored"
              /\ step[t] = "stored" =>
                    /\ resp[t][1].data = data[t][1]
                    /\ \E page \in PagesOf(req[t][1]) :
                          Extract(req[t][1], page) = Parsed(data[t][1])
                    /\ [ts |-> newts[t][1], data |-> data[t][1]] \in written[req[t]]

\* a second store for a key has replaced a payload that had more in it
C4_Witness ==
    \E t \in Threads :
        /\ pc[t] = "done"
        /\ step[t] = "stored"
        /\ req[t][1] = "current"
        /\ resp[t][1].data = parse_weather(BarePage).data
        /\ cache[req[t]].data = parse_weather(BarePage).data
        /\ \E e \in written[req[t]] : e.data = parse_weather(FactPage).data

\* C5: a request that ends in a primary hit has called neither the fetcher
\* nor the extractor; every other request has called the fetcher exactly
\* once when it ends, and no request calls it twice
C5_SingleShot ==
    \A t \in Threads :
        /\ fetches[t] <= 1
        /\ parses[t] <= fetches[t]
        /\ pc[t] \in {"idle", "lookup", "fetch"} => fetches[t] = 0
        /\ pc[t] \in {"fallback", "store"} => fetches[t] = 1
        /\ pc[t] = "done" =>
              IF step[t] = "primary"
              THEN fetches[t] = 0 /\ parses[t] = 0 /\ ServedFromCache(t)
              ELSE fetches[t] = 1

\* a request whose fetch failed has ended, with one fetch and no retry
C5_Witness ==
    \E t \in Threads :
        /\ pc[t] = "done"
        /\ step[t] = "fetch_failed"
        /\ resp[t][1].status = 502
        /\ fetches[t] = 1
        /\ parses[t] = 0

\* C6: every entry in the cache, and every entry a lookup has read, is one
\* that a single store call for that key built, timestamp and payload; and
\* every payload served from the cache is the payload of such an entry
C6_NoTornEntry ==
    /\ \A k \in DOMAIN cache : cache[k] \in written[k]
    /\ \A t \in Threads :
          /\ entry[t] # <<>> => entry[t][1] \in written[req[t]]
          /\ ServedFromCache(t) => \E e \in written[req[t]] : e.data = resp[t][1].data

\* two requests for one key have both missed the cache before either stored,
\* and both have fetched, extracted and stored, each its own record
C6_Witness ==
    \E t, u \in Threads :
        /\ t # u
        /\ req[t] = req[u]
        /\ pc[t] = "done" /\ step[t] = "stored"
        /\ pc[u] = "done" /\ step[u] = "stored"
        /\ ticks = 0
        /\ resp[t][1].data # resp[u][1].data
        /\ cache[req[t]].data = resp[u][1].data

\* C10: the cache changes only in the step that ends a successful
\* extraction, and then only at the key of that request; no key ever leaves
\* it, and a request that ends in a hit, a fallback hit or an error leaves it
\* as it is
C10_Frame ==
    [][/\ DOMAIN cache \subseteq DOMAIN cache'
       /\ cache' # cache =>
            \E t \in Threads :
                /\ pc[t] = "store" /\ pc'[t] = "done" /\ step'[t] = "stored"
                /\ \A k \in DOMAIN cache : k # req[t] => cache'[k] = cache[k]
       /\ \A t \in Threads :
            (pc[t] \in {"lookup", "fallback"} /\ pc'[t] = "done") => cache' = cache]_vars

\* a primary hit on an entry a minute old has left its timestamp alone
C10_Witness ==
    \E t \in Threads :
        /\ ServedFromCache(t)
        /\ step[t] = "primary"
        /\ cache[req[t]] = entry[t][1]
        /\ cache[req[t]].ts < now

====
